---- MODULE Spec2Model ----
(***************************************************************************)
(* A model of the IRC <-> Matrix bridge of src/src/bridge.rs: the per-room *)
(* buffering state machine (Room), the event deduplication of              *)
(* Bridge::handle_matrix, the client command loop Bridge::handle_client    *)
(* and the poll cycle run by the worker threads of Bridge::poll_matrix.    *)
(***************************************************************************)
EXTENDS Integers, Sequences, FiniteSets, TLC

VARIABLES
    rooms,          \* Bridge.rooms: RoomID -> Room (a function on the ids seen so far)
    seen_events,    \* Bridge.seen_events: sequence of EventID
    io,             \* the reactor's exchanges with the outside, in order: commands read
                    \* from the IRC client, messages written to it, calls of the remote service
    auth,           \* client.auth: [username, password], each an Option
    nickname,       \* the nickname set by client.set_nickname
    uid,            \* matrix.uid: Option, set by a successful login
    inbox,          \* client commands received on the connection and not yet read
    ncmds,          \* the number of commands the client has sent
    client_ready,   \* a readiness event for the CLIENT token is pending (edge-triggered)
    pc,             \* position of the reactor: "idle", "client" (inside handle_client's loop)
                    \* or "sync" (inside start_matrix's loop over the snapshot)
    syncq,          \* the snapshot events start_matrix has still to handle
    channel,        \* the mio notification channel: FIFO of [msg, src]
    workers,        \* the worker threads spawned by poll_matrix, by spawn order
    echoes,         \* the events the remote service created for the bridge's own sends, in order
    handled,        \* history: the notifications the reactor has consumed, in order
    delivered,      \* history: the EventIDs handle_matrix has been given, in order
    replayed,       \* history: how many buffered events run_pending has popped so far
    panicked        \* the reactor thread has panicked (the session is aborted)

vars == <<rooms, seen_events, io, auth, nickname, uid, inbox, ncmds, client_ready, pc, syncq,
          channel, workers, echoes, handled, delivered, replayed, panicked>>

-----------------------------------------------------------------------------
(* Bounds of the model. *)

\* most room events buffered or translated in the room-level specification
MaxEvents == 3

\* most commands the IRC client sends in a session
MaxCmds == 3

\* most events in one batch of the remote service (snapshot or poll)
MaxBatch == 2

\* most poll requests the remote service answers in a session
MaxPolls == 1

-----------------------------------------------------------------------------
(* Option<T>: None is the empty sequence, Some(x) the one-element sequence. *)

None == <<>>

Some(x) == <<x>>

Unwrap(o) == o[1]

-----------------------------------------------------------------------------
(* Values of the matrix and irc crates the bridge handles. *)

User(nick, hs) == [nickname |-> nick, homeserver |-> hs]

Alice == User("alice", "hs.org")

Bob == User("bob", "example.com")

\* matrix::events::RoomEvent, one constructor per variant
CanonicalAlias(name) == [tag |-> "CanonicalAlias", name |-> name]

Aliases(list) == [tag |-> "Aliases", aliases |-> list]

JoinRules(rules) == [tag |-> "JoinRules", rules |-> rules]

Membership(user, action) == [tag |-> "Membership", user |-> user, action |-> action]

Message(user, text) == [tag |-> "Message", user |-> user, text |-> text]

Topic(user, topic) == [tag |-> "Topic", user |-> user, topic |-> topic]

Nullary(tag) == [tag |-> tag]

\* matrix::events::EventData
RoomData(room_id, room_event) == [kind |-> "Room", room_id |-> room_id, event |-> room_event]

Typing == [kind |-> "Typing"]

\* matrix::events::Event
MatrixEvent(id, data) == [id |-> id, data |-> data]

\* irc::protocol::Message
IrcMessage(prefix, command, args, suffix) ==
    [prefix |-> prefix, command |-> command, args |-> args, suffix |-> suffix]

\* one entry of io: a command read from the IRC client
FromClient(msg) == [to |-> "reactor", msg |-> msg]

\* one entry of io: a message written to the IRC client
ToClient(msg) == [to |-> "client", msg |-> msg]

\* one entry of io: a call of the remote service and whether it succeeded
ToMatrix(call, ok) == [to |-> "matrix", call |-> call, ok |-> ok]

IsClientWrite(x) == x.to = "client"

\* the messages written to the IRC client so far, in order
ClientOut ==
    LET written == SelectSeq(io, IsClientWrite)
    IN  [i \in 1..Len(written) |-> written[i].msg]

-----------------------------------------------------------------------------
(* Room *)

RoomNew(id) ==
    [id |-> id, canonical_alias |-> None, join_rules |-> None,
     members |-> <<>>, pending_events |-> <<>>]

\* Prefix with the nickname written once
PrefixNickOnce(user) == user.nickname \o "@" \o user.homeserver

\* format!("{}!{}@{}", user.nickname, user.nickname, user.homeserver)
Prefix(user) == user.nickname \o "!" \o user.nickname \o "@" \o user.homeserver

Translate(room, user, command, suffix) ==
    IrcMessage(Some(Prefix(user)), command, <<Unwrap(room.canonical_alias)>>, suffix)

\* the outcome of a Room method: the room afterwards, the messages handed to
\* the callback in order, and whether the method panicked
Outcome(room, msgs, panic) == [room |-> room, msgs |-> msgs, panic |-> panic]

\* Buffer with the push forgotten: the event is dropped
BufferDropped(room, evt) == Outcome(room, <<>>, FALSE)

\* self.pending_events.push(evt)
Buffer(room, evt) == Outcome([room EXCEPT !.pending_events = Append(@, evt)], <<>>, FALSE)

\* PushMember that skips a user who is already recorded
PushMemberOnce(room, user) ==
    IF \E i \in 1..Len(room.members) : room.members[i] = user
    THEN room
    ELSE [room EXCEPT !.members = Append(@, user)]

\* self.members.push(user)
PushMember(room, user) == [room EXCEPT !.members = Append(@, user)]

\* OtherMembership treated as a Join
OtherMembershipJoins(room, evt) ==
    Outcome(PushMember(room, evt.user), <<Translate(room, evt.user, "Join", None)>>, FALSE)

\* RoomEvent::Membership(_, _) => (): a membership action other than Join and Leave
OtherMembership(room, evt) == Outcome(room, <<>>, FALSE)

HandleWithAlias(room, evt) ==
    IF room.canonical_alias # None
    THEN CASE evt.tag = "Membership" /\ evt.action = "Join" ->
                Outcome(PushMember(room, evt.user),
                        <<Translate(room, evt.user, "Join", None)>>, FALSE)
           [] evt.tag = "Membership" /\ evt.action = "Leave" ->
                Outcome(PushMember(room, evt.user),
                        <<Translate(room, evt.user, "Part", None)>>, FALSE)
           [] evt.tag = "Membership" ->
                OtherMembership(room, evt)
           [] evt.tag = "Message" ->
                Outcome(room, <<Translate(room, evt.user, "Privmsg", Some(evt.text))>>, FALSE)
           [] evt.tag = "Topic" ->
                Outcome(room, <<Translate(room, evt.user, "Topic", Some(evt.topic))>>, FALSE)
           [] evt.tag = "CanonicalAlias" ->
                Outcome(room, <<>>, TRUE)
           [] OTHER ->
                Outcome(room, <<>>, FALSE)
    ELSE Buffer(room, evt)

\* RunPending with "if let" for "while let": only the last buffered event is replayed
RunPendingOnce(room) ==
    IF room.pending_events = <<>>
    THEN Outcome(room, <<>>, FALSE)
    ELSE LET n == Len(room.pending_events)
         IN  HandleWithAlias([room EXCEPT !.pending_events = SubSeq(@, 1, n - 1)],
                             room.pending_events[n])

RECURSIVE RunPending(_)
RunPending(room) ==
    IF room.pending_events = <<>>
    THEN Outcome(room, <<>>, FALSE)
    ELSE LET n == Len(room.pending_events)
             evt == room.pending_events[n]
             popped == [room EXCEPT !.pending_events = SubSeq(@, 1, n - 1)]
             one == HandleWithAlias(popped, evt)
         IN  IF one.panic
             THEN one
             ELSE LET rest == RunPending(one.room)
                  IN  Outcome(rest.room, one.msgs \o rest.msgs, rest.panic)

\* CanonicalAliasArm forgotten: the event falls through to handle_with_alias
CanonicalAliasArmBuffered(room, evt) == HandleWithAlias(room, evt)

\* handle_event, the RoomEvent::CanonicalAlias(name) arm
CanonicalAliasArm(room, evt) ==
    LET was_empty == room.canonical_alias = None
        named == [room EXCEPT !.canonical_alias = Some(evt.name)]
    IN  IF was_empty THEN RunPending(named) ELSE Outcome(named, <<>>, FALSE)

\* AliasesArm without the test of canonical_alias: the first alias is always adopted
AliasesArmAlways(room, evt) ==
    IF Len(evt.aliases) = 0
    THEN Outcome(room, <<>>, TRUE)
    ELSE RunPending([room EXCEPT !.canonical_alias = Some(evt.aliases[1])])

\* handle_event, the RoomEvent::Aliases(aliases) arm; aliases[0] panics on an empty list
AliasesArm(room, evt) ==
    LET is_empty == room.canonical_alias = None
    IN  IF is_empty
        THEN IF Len(evt.aliases) = 0
             THEN Outcome(room, <<>>, TRUE)
             ELSE RunPending([room EXCEPT !.canonical_alias = Some(evt.aliases[1])])
        ELSE Outcome(room, <<>>, FALSE)

\* Bookkeeping with the arms forgotten: the events fall through to handle_with_alias
BookkeepingForwarded(room, evt) == HandleWithAlias(room, evt)

\* handle_event, the arms of JoinRules, Create, PowerLevels, HistoryVisibility,
\* Name, Avatar and Unknown
Bookkeeping(room, evt) ==
    IF evt.tag = "JoinRules"
    THEN Outcome([room EXCEPT !.join_rules = Some(evt.rules)], <<>>, FALSE)
    ELSE Outcome(room, <<>>, FALSE)

HandleEvent(room, evt) ==
    CASE evt.tag = "CanonicalAlias" ->
            CanonicalAliasArm(room, evt)
      [] evt.tag = "Aliases" ->
            AliasesArm(room, evt)
      [] evt.tag \in {"JoinRules", "Create", "PowerLevels", "HistoryVisibility", "Name",
                      "Avatar", "Unknown"} ->
            Bookkeeping(room, evt)
      [] OTHER ->
            HandleWithAlias(room, evt)

-----------------------------------------------------------------------------
(* Bridge *)

\* Bridge::room_from_matrix: the rooms after the room of id was looked up
RoomFromMatrix(rms, id) ==
    IF id \in DOMAIN rms THEN rms ELSE rms @@ (id :> RoomNew(id))

\* RoomFromIrc with the comparison of the alias forgotten: any Resolved room matches
RoomFromIrcAnyResolved(rms, name) ==
    {id \in DOMAIN rms : rms[id].canonical_alias # None}

\* the room ids Bridge::room_from_irc can return for a channel name
RoomFromIrc(rms, name) ==
    {id \in DOMAIN rms : rms[id].canonical_alias = Some(name)}

Duplicate(seen, evt) ==
    IF evt.id # None THEN \E i \in 1..Len(seen) : seen[i] = Unwrap(evt.id) ELSE FALSE

SendAll(log, msgs) ==
    log \o [i \in 1..Len(msgs) |-> ToClient(msgs[i])]

\* RecordSeen with the push forgotten
RecordSeenNever(seen, evt) == seen

RecordSeen(seen, evt) ==
    IF evt.id # None THEN Append(seen, Unwrap(evt.id)) ELSE seen

\* Bridge::handle_matrix
\* how many events a Room method popped off pending_events
Popped(before, after) ==
    IF Len(after.pending_events) < Len(before.pending_events)
    THEN Len(before.pending_events) - Len(after.pending_events)
    ELSE 0

HandleMatrix(evt) ==
    /\ delivered' = IF evt.id # None THEN Append(delivered, Unwrap(evt.id)) ELSE delivered
    /\ IF ~Duplicate(seen_events, evt)
       THEN IF evt.data.kind = "Room"
            THEN LET found == RoomFromMatrix(rooms, evt.data.room_id)
                     r == HandleEvent(found[evt.data.room_id], evt.data.event)
                 IN  /\ rooms' = [found EXCEPT ![evt.data.room_id] = r.room]
                     /\ replayed' = replayed + Popped(found[evt.data.room_id], r.room)
                     /\ panicked' = r.panic
                     /\ IF r.panic
                        THEN UNCHANGED <<seen_events, io>>
                        ELSE /\ seen_events' = RecordSeen(seen_events, evt)
                             /\ io' = SendAll(io, r.msgs)
            ELSE /\ seen_events' = RecordSeen(seen_events, evt)
                 /\ UNCHANGED <<rooms, io, replayed, panicked>>
       ELSE UNCHANGED <<rooms, seen_events, io, replayed, panicked>>

\* Bridge::new
Init ==
    /\ rooms = <<>>
    /\ seen_events = <<>>
    /\ io = <<>>
    /\ auth = [username |-> None, password |-> None]
    /\ nickname = None
    /\ uid = None
    /\ inbox = <<>>
    /\ ncmds = 0
    /\ client_ready = FALSE
    /\ pc = "idle"
    /\ syncq = <<>>
    /\ channel = <<>>
    /\ workers = <<>>
    /\ echoes = <<>>
    /\ handled = <<>>
    /\ delivered = <<>>
    /\ replayed = 0
    /\ panicked = FALSE

-----------------------------------------------------------------------------
(* The room-level specification: handle_matrix is given room events without *)
(* an id, in any order.                                                     *)

RoomIDs == {"!r1"}

RoomEvents ==
    {Membership(Alice, "Join"), Membership(Bob, "Join"), Membership(Alice, "Leave"),
     Membership(Bob, "Invite"), Message(Alice, "hi"), Topic(Bob, "news"),
     CanonicalAlias("#general"), CanonicalAlias("#other"),
     Aliases(<<"#first", "#second">>), Aliases(<<>>),
     JoinRules("public"), Nullary("Create"), Nullary("PowerLevels"),
     Nullary("HistoryVisibility"), Nullary("Name"), Nullary("Avatar"), Nullary("Unknown")}

RECURSIVE SumPending(_, _)
SumPending(rms, ids) ==
    IF ids = {} THEN 0
    ELSE LET id == CHOOSE x \in ids : TRUE
         IN  Len(rms[id].pending_events) + SumPending(rms, ids \ {id})

\* the room events buffered or translated so far
Load == SumPending(rooms, DOMAIN rooms) + Len(ClientOut)

DeliverRoomEvent(room_id, room_event) ==
    /\ ~panicked
    /\ Load < MaxEvents
    /\ HandleMatrix(MatrixEvent(None, RoomData(room_id, room_event)))
    /\ UNCHANGED <<auth, nickname, uid, inbox, ncmds, client_ready, pc, syncq, channel,
                   workers, echoes, handled>>

NextRoom == \E room_id \in RoomIDs, room_event \in RoomEvents : DeliverRoomEvent(room_id, room_event)

SpecRoom == Init /\ [][NextRoom]_vars

-----------------------------------------------------------------------------
(* The session-level specification: the IRC client, the reactor (ready,    *)
(* notify, handle_client, start_matrix), the worker threads of poll_matrix *)
(* and the remote service answering them.                                  *)

\* an irc::protocol::Message received from the client
Cmd(command, args, suffix) == IrcMessage(None, command, args, suffix)

ClientCommands ==
    {Cmd("Pass", <<"secret">>, None), Cmd("Nick", <<"bob">>, None), Cmd("User", <<"bob">>, None),
     Cmd("Privmsg", <<"#general">>, Some("yo")), Cmd("Privmsg", <<"#nowhere">>, Some("yo"))}

\* the events the remote service holds at the start of the session
E1 == MatrixEvent(Some(1), RoomData("!r1", CanonicalAlias("#general")))

E2 == MatrixEvent(Some(2), RoomData("!r1", Message(Alice, "hi")))

E3 == MatrixEvent(None, Typing)

\* the remote service's event stream: the message of the room precedes its alias
Timeline == <<E2, E1, E3>> \o echoes

Windows ==
    {w \in (1..Len(Timeline)) \X (1..Len(Timeline)) : w[1] <= w[2] /\ w[2] - w[1] < MaxBatch}

\* the batches the remote service can answer a snapshot or poll request with:
\* any window of its event stream (polling windows may overlap)
Batches == {<<>>} \cup {SubSeq(Timeline, w[1], w[2]) : w \in Windows}

\* the user id the remote service gives the session on login
BridgeUser == User("bob", "hs.org")

\* the EventID the remote service gives the n-th event the bridge sends
SentId(n) == 100 + n

EndPoll(src) == [kind |-> "EndPoll", src |-> src]

Matrix(evt, src) == [kind |-> "Matrix", evt |-> evt, src |-> src]

\* a worker thread of poll_matrix: blocked in the request, sending its batch,
\* done, or failed (the closure returned the request's error)
Worker(st, batch, next) == [st |-> st, batch |-> batch, next |-> next]

\* Bridge::poll_matrix: the request is built and a worker thread spawned; the
\* JoinHandle it returns is dropped by both callers
PollMatrix(ws) == Append(ws, Worker("request", <<>>, 1))

Answered == Cardinality({w \in DOMAIN workers : workers[w].st # "request"})

\* the client writes a command to the connection
ClientSend(cmd) ==
    /\ ~panicked
    /\ ncmds < MaxCmds
    /\ ncmds' = ncmds + 1
    /\ inbox' = Append(inbox, cmd)
    /\ client_ready' = TRUE
    /\ UNCHANGED <<rooms, seen_events, io, auth, nickname, uid, pc, syncq, channel, workers,
                   echoes, handled, delivered, replayed, panicked>>

\* Handler::ready for the CLIENT token: handle_client is entered
Ready ==
    /\ ~panicked
    /\ pc = "idle"
    /\ client_ready
    /\ client_ready' = FALSE
    /\ pc' = "client"
    /\ UNCHANGED <<rooms, seen_events, io, auth, nickname, uid, inbox, ncmds, syncq, channel,
                   workers, echoes, handled, delivered, replayed, panicked>>

\* handle_client: read_message() returns None
ReadNone ==
    /\ ~panicked
    /\ pc = "client"
    /\ inbox = <<>>
    /\ pc' = "idle"
    /\ UNCHANGED <<rooms, seen_events, io, auth, nickname, uid, inbox, ncmds, client_ready,
                   syncq, channel, workers, echoes, handled, delivered, replayed, panicked>>

\* handle_client: read_message() returns a message of the given command
Reads(command) ==
    /\ ~panicked
    /\ pc = "client"
    /\ inbox # <<>>
    /\ Head(inbox).command = command
    /\ inbox' = Tail(inbox)

\* io after the command at the head of the inbox was read and the reactor did effects
Did(effects) == Append(io, FromClient(Head(inbox))) \o effects

CmdPass ==
    /\ Reads("Pass")
    /\ auth' = [auth EXCEPT !.password = Some(Head(inbox).args[1])]
    /\ io' = Did(<<>>)
    /\ UNCHANGED <<rooms, seen_events, nickname, uid, ncmds, client_ready, pc, syncq,
                   channel, workers, echoes, handled, delivered, replayed, panicked>>

CmdNick ==
    /\ Reads("Nick")
    /\ nickname' = IF Head(inbox).suffix = None
                   THEN Some(Head(inbox).args[1])
                   ELSE Head(inbox).suffix
    /\ io' = Did(<<>>)
    /\ UNCHANGED <<rooms, seen_events, auth, uid, ncmds, client_ready, pc, syncq,
                   channel, workers, echoes, handled, delivered, replayed, panicked>>

\* client.auth.consume(): the credentials are taken out of the client
Consume(a) == [username |-> None, password |-> None]

\* matrix.login() failed: .expect("Could not login!") panics
LoginError ==
    /\ io' = Did(<<ToMatrix("login", FALSE)>>)
    /\ panicked' = TRUE
    /\ UNCHANGED <<uid, pc, syncq>>

\* SyncError with the error only logged: start_matrix goes on as after an empty snapshot
SyncErrorIgnored ==
    /\ io' = Did(<<ToMatrix("login", TRUE), ToMatrix("sync", FALSE)>>)
    /\ uid' = Some(BridgeUser)
    /\ pc' = "sync"
    /\ syncq' = <<>>
    /\ UNCHANGED panicked

\* matrix.sync() failed in start_matrix: the error is returned, the welcome is
\* skipped and .expect("Could not login!") panics
SyncError ==
    /\ io' = Did(<<ToMatrix("login", TRUE), ToMatrix("sync", FALSE)>>)
    /\ uid' = Some(BridgeUser)
    /\ panicked' = TRUE
    /\ UNCHANGED <<pc, syncq>>

\* matrix.login() and matrix.sync() succeeded: start_matrix loops over the events
SyncOk(events) ==
    /\ io' = Did(<<ToMatrix("login", TRUE), ToMatrix("sync", TRUE)>>)
    /\ uid' = Some(BridgeUser)
    /\ pc' = "sync"
    /\ syncq' = events
    /\ UNCHANGED panicked

CmdUser ==
    /\ Reads("User")
    /\ auth' = Consume(auth)
    /\ LET username == Some(Head(inbox).args[1])
           password == auth.password
       IN  IF username # None /\ password # None
           THEN \/ LoginError
                \/ SyncError
                \/ \E events \in Batches : SyncOk(events)
           ELSE /\ panicked' = TRUE
                /\ io' = Did(<<>>)
                /\ UNCHANGED <<uid, pc, syncq>>
    /\ UNCHANGED <<rooms, seen_events, nickname, ncmds, client_ready, channel, workers,
                   echoes, handled, delivered, replayed>>

\* start_matrix: one turn of the loop over the snapshot's events
SyncStep ==
    /\ ~panicked
    /\ pc = "sync"
    /\ syncq # <<>>
    /\ HandleMatrix(Head(syncq))
    /\ syncq' = Tail(syncq)
    /\ UNCHANGED <<auth, nickname, uid, inbox, ncmds, client_ready, pc, channel, workers,
                   echoes, handled>>

\* AfterSync with the welcome sent before the poll cycle is started
AfterSyncWelcomeFirst ==
    <<ToClient(IrcMessage(None, "Welcome", <<>>, None)), ToMatrix("poll", TRUE)>>

\* what the reactor does once the snapshot is handled: start_matrix starts the
\* first poll cycle, then handle_client sends the welcome
AfterSync == <<ToMatrix("poll", TRUE), ToClient(IrcMessage(None, "Welcome", <<>>, None))>>

\* start_matrix after the loop, and the rest of the User arm of handle_client
SyncDone ==
    /\ ~panicked
    /\ pc = "sync"
    /\ syncq = <<>>
    /\ workers' = PollMatrix(workers)
    /\ io' = io \o AfterSync
    /\ pc' = "client"
    /\ UNCHANGED <<rooms, seen_events, auth, nickname, uid, inbox, ncmds, client_ready, syncq,
                   channel, echoes, handled, delivered, replayed, panicked>>

\* RecordSent with the returned id discarded
RecordSentDropped(seen, id) == seen

\* the seen-set after the id returned by matrix.send() was pushed
RecordSent(seen, id) == Append(seen, id)

\* the Privmsg arm once room_from_irc found room_id
SendTo(room_id) ==
    IF uid = None \/ Head(inbox).suffix = None
    THEN /\ panicked' = TRUE
         /\ io' = Did(<<>>)
         /\ UNCHANGED <<seen_events, echoes, pc>>
    ELSE \/ /\ io' = Did(<<ToMatrix("send", FALSE)>>)
            /\ panicked' = TRUE
            /\ UNCHANGED <<seen_events, echoes, pc>>
         \/ LET id == SentId(Len(echoes) + 1)
                evt == RoomData(room_id, Message(Unwrap(uid), Unwrap(Head(inbox).suffix)))
            IN  /\ io' = Did(<<ToMatrix("send", TRUE)>>)
                /\ echoes' = Append(echoes, MatrixEvent(Some(id), evt))
                /\ seen_events' = RecordSent(seen_events, id)
                /\ UNCHANGED <<pc, panicked>>

\* the Privmsg arm when room_from_irc returns None: handle_client returns
DropPrivmsg ==
    /\ pc' = "idle"
    /\ io' = Did(<<>>)
    /\ UNCHANGED <<seen_events, echoes, panicked>>

CmdPrivmsg ==
    /\ Reads("Privmsg")
    /\ LET found == RoomFromIrc(rooms, Head(inbox).args[1])
       IN  IF found = {}
           THEN DropPrivmsg
           ELSE \E room_id \in found : SendTo(room_id)
    /\ UNCHANGED <<rooms, auth, nickname, uid, ncmds, client_ready, syncq, channel, workers,
                   handled, delivered, replayed>>

\* Handler::notify, Event::EndPoll
NotifyEndPoll ==
    /\ ~panicked
    /\ pc = "idle"
    /\ channel # <<>>
    /\ Head(channel).kind = "EndPoll"
    /\ channel' = Tail(channel)
    /\ handled' = Append(handled, Head(channel))
    /\ workers' = PollMatrix(workers)
    /\ io' = Append(io, ToMatrix("poll", TRUE))
    /\ UNCHANGED <<rooms, seen_events, auth, nickname, uid, inbox, ncmds, client_ready, pc,
                   syncq, echoes, delivered, replayed, panicked>>

\* Handler::notify, Event::Matrix(e)
NotifyMatrix ==
    /\ ~panicked
    /\ pc = "idle"
    /\ channel # <<>>
    /\ Head(channel).kind = "Matrix"
    /\ channel' = Tail(channel)
    /\ handled' = Append(handled, Head(channel))
    /\ HandleMatrix(Head(channel).evt)
    /\ UNCHANGED <<auth, nickname, uid, inbox, ncmds, client_ready, pc, syncq, workers, echoes>>

\* a worker's poll.send() returns a batch of events
PollReturn(w, events) ==
    /\ ~panicked
    /\ workers[w].st = "request"
    /\ Answered < MaxPolls
    /\ workers' = [workers EXCEPT ![w] = Worker("sending", events, 1)]
    /\ UNCHANGED <<rooms, seen_events, io, auth, nickname, uid, inbox, ncmds, client_ready, pc,
                   syncq, channel, echoes, handled, delivered, replayed, panicked>>

\* a worker's poll.send() returns an error: and_then skips the closure and the
\* thread ends with the error as its result
PollFail(w) ==
    /\ ~panicked
    /\ workers[w].st = "request"
    /\ Answered < MaxPolls
    /\ workers' = [workers EXCEPT ![w] = Worker("failed", <<>>, 1)]
    /\ UNCHANGED <<rooms, seen_events, io, auth, nickname, uid, inbox, ncmds, client_ready, pc,
                   syncq, channel, echoes, handled, delivered, replayed, panicked>>

\* NextSend walking the batch from its end
NextSendReversed(wk, w) ==
    IF wk.next <= Len(wk.batch)
    THEN [msg |-> Matrix(wk.batch[Len(wk.batch) + 1 - wk.next], w),
          worker |-> [wk EXCEPT !.next = @ + 1]]
    ELSE [msg |-> EndPoll(w), worker |-> [wk EXCEPT !.st = "done"]]

\* what the worker w sends next on the channel, and the worker afterwards
NextSend(wk, w) ==
    IF wk.next <= Len(wk.batch)
    THEN [msg |-> Matrix(wk.batch[wk.next], w), worker |-> [wk EXCEPT !.next = @ + 1]]
    ELSE [msg |-> EndPoll(w), worker |-> [wk EXCEPT !.st = "done"]]

\* one channel.send() of a worker: the next event of its batch, or EndPoll
WorkerSend(w) ==
    /\ ~panicked
    /\ workers[w].st = "sending"
    /\ channel' = Append(channel, NextSend(workers[w], w).msg)
    /\ workers' = [workers EXCEPT ![w] = NextSend(workers[w], w).worker]
    /\ UNCHANGED <<rooms, seen_events, io, auth, nickname, uid, inbox, ncmds, client_ready, pc,
                   syncq, echoes, handled, delivered, replayed, panicked>>

Next ==
    \/ \E cmd \in ClientCommands : ClientSend(cmd)
    \/ Ready
    \/ ReadNone
    \/ CmdPass
    \/ CmdNick
    \/ CmdUser
    \/ SyncStep
    \/ SyncDone
    \/ CmdPrivmsg
    \/ NotifyEndPoll
    \/ NotifyMatrix
    \/ \E w \in DOMAIN workers : \E events \in Batches : PollReturn(w, events)
    \/ \E w \in DOMAIN workers : PollFail(w)
    \/ \E w \in DOMAIN workers : WorkerSend(w)

Spec == Init /\ [][Next]_vars

-----------------------------------------------------------------------------
(* The session with a client that quits: the commands are Pass, User and   *)
(* Quit.                                                                   *)

QuitCommands ==
    {Cmd("Pass", <<"secret">>, None), Cmd("User", <<"bob">>, None), Cmd("Quit", <<>>, None)}

\* CmdQuit doing what its FIXME asks for: the poll cycles are cancelled
CmdQuitCancels ==
    /\ Reads("Quit")
    /\ io' = Did(<<>>)
    /\ pc' = "idle"
    /\ workers' = [w \in DOMAIN workers |-> Worker("failed", <<>>, 1)]
    /\ channel' = <<>>
    /\ UNCHANGED <<rooms, seen_events, auth, nickname, uid, ncmds, client_ready, syncq,
                   echoes, handled, delivered, replayed, panicked>>

\* handle_client, Command::Quit: the function returns and nothing else is done
CmdQuit ==
    /\ Reads("Quit")
    /\ io' = Did(<<>>)
    /\ pc' = "idle"
    /\ UNCHANGED <<rooms, seen_events, auth, nickname, uid, ncmds, client_ready, syncq,
                   channel, workers, echoes, handled, delivered, replayed, panicked>>

NextQuit ==
    \/ \E cmd \in QuitCommands : ClientSend(cmd)
    \/ Ready
    \/ ReadNone
    \/ CmdPass
    \/ CmdUser
    \/ CmdQuit
    \/ SyncStep
    \/ SyncDone
    \/ NotifyEndPoll
    \/ NotifyMatrix
    \/ \E w \in DOMAIN workers : \E events \in Batches : PollReturn(w, events)
    \/ \E w \in DOMAIN workers : PollFail(w)
    \/ \E w \in DOMAIN workers : WorkerSend(w)

SpecQuit == Init /\ [][NextQuit]_vars

-----------------------------------------------------------------------------
(* The session with a client that logs in again: all its commands, Pass    *)
(* and User in any order, are received before the reactor first reads.     *)

\* most commands in the script of the client that logs in again
MaxScript == 4

LoginCommands == {Cmd("Pass", <<"secret">>, None), Cmd("User", <<"bob">>, None)}

Scripts == UNION {[1..n -> LoginCommands] : n \in 1..MaxScript}

\* Bridge::new, with the client's script already received on the connection
InitRelogin ==
    /\ rooms = <<>>
    /\ seen_events = <<>>
    /\ io = <<>>
    /\ auth = [username |-> None, password |-> None]
    /\ nickname = None
    /\ uid = None
    /\ inbox \in Scripts
    /\ ncmds = Len(inbox)
    /\ client_ready = TRUE
    /\ pc = "idle"
    /\ syncq = <<>>
    /\ channel = <<>>
    /\ workers = <<>>
    /\ echoes = <<>>
    /\ handled = <<>>
    /\ delivered = <<>>
    /\ replayed = 0
    /\ panicked = FALSE

NextRelogin ==
    \/ Ready
    \/ ReadNone
    \/ CmdPass
    \/ CmdUser
    \/ SyncStep
    \/ SyncDone
    \/ NotifyEndPoll
    \/ NotifyMatrix
    \/ \E w \in DOMAIN workers : \E events \in Batches : PollReturn(w, events)
    \/ \E w \in DOMAIN workers : PollFail(w)
    \/ \E w \in DOMAIN workers : WorkerSend(w)

SpecRelogin == InitRelogin /\ [][NextRelogin]_vars

-----------------------------------------------------------------------------
(* Claims about the Room state machine, checked under SpecRoom. *)

\* the membership, message and topic events among RoomEvents
RoomScoped == {e \in RoomEvents : e.tag \in {"Membership", "Message", "Topic"}}

(* C1: while a Room's canonical name is unset no outbound message has been  *)
(* produced for it, and a membership, message or topic event handled in     *)
(* that state is appended to pending and emits nothing.                     *)
C1_UnresolvedBuffers ==
    \A id \in DOMAIN rooms :
        rooms[id].canonical_alias = None =>
            /\ ClientOut = <<>>
            /\ \A e \in RoomScoped :
                  HandleEvent(rooms[id], e) =
                      Outcome([rooms[id] EXCEPT !.pending_events = Append(@, e)], <<>>, FALSE)

\* an Unresolved Room that has buffered a membership, a message and a topic event
C1_Witness ==
    \E id \in DOMAIN rooms :
        /\ rooms[id].canonical_alias = None
        /\ ClientOut = <<>>
        /\ {"Membership", "Message", "Topic"} \subseteq
               {rooms[id].pending_events[i].tag : i \in 1..Len(rooms[id].pending_events)}

\* this step takes the Room id from Unresolved (or not yet created) to Resolved
Resolves(id) ==
    /\ id \in DOMAIN rooms => rooms[id].canonical_alias = None
    /\ id \in DOMAIN rooms'
    /\ rooms'[id].canonical_alias # None

\* what the Room id had buffered before this step
PendingBefore(id) == IF id \in DOMAIN rooms THEN rooms[id].pending_events ELSE <<>>

\* the messages written to the client by this step
Emitted == SubSeq(ClientOut', Len(ClientOut) + 1, Len(ClientOut'))

\* the messages the events translate to for the Resolved room, oldest event first
RECURSIVE InArrivalOrder(_, _)
InArrivalOrder(room, evts) ==
    IF evts = <<>>
    THEN <<>>
    ELSE HandleWithAlias(room, Head(evts)).msgs \o InArrivalOrder(room, Tail(evts))

(* C2: when an Unresolved Room becomes Resolved, the step emits the         *)
(* translations of the buffered events in arrival order, oldest first, and  *)
(* nothing else.                                                            *)
C2_FifoReplay ==
    [][\A id \in DOMAIN rooms' :
          Resolves(id) =>
              /\ ClientOut' = ClientOut \o Emitted
              /\ Emitted = InArrivalOrder(rooms'[id], PendingBefore(id))]_vars

Count(seq, x) == Cardinality({i \in 1..Len(seq) : seq[i] = x})

\* the two sequences hold the same elements, each as many times
SameBag(s, t) ==
    /\ Len(s) = Len(t)
    /\ \A i \in 1..Len(s) : Count(s, s[i]) = Count(t, s[i])

(* C3: the step that resolves a Room translates every buffered event        *)
(* exactly once (each popped once, the emitted messages are those of the    *)
(* buffered events, none lost and none repeated); a Resolved Room never     *)
(* becomes Unresolved again and its pending is empty after every step.      *)
C3_DrainedOnce ==
    [][\A id \in DOMAIN rooms' :
          /\ (id \in DOMAIN rooms /\ rooms[id].canonical_alias # None)
                => rooms'[id].canonical_alias # None
          /\ rooms'[id].canonical_alias # None => rooms'[id].pending_events = <<>>
          /\ Resolves(id) =>
                /\ replayed' = replayed + Len(PendingBefore(id))
                /\ SameBag(Emitted, InArrivalOrder(rooms'[id], PendingBefore(id)))]_vars

\* a Room that replayed two buffered events on resolution and has translated
\* a later event at once
C3_Witness ==
    \E id \in DOMAIN rooms :
        /\ rooms[id].canonical_alias # None
        /\ rooms[id].pending_events = <<>>
        /\ replayed = 2
        /\ Len(ClientOut) = 3

-----------------------------------------------------------------------------
(* Claims about the session, checked under Spec. *)

Range(seq) == {seq[i] : i \in 1..Len(seq)}

\* this step hands an event to handle_matrix: the head of the channel (notify)
\* or of the snapshot (start_matrix)
FromChannel == pc = "idle" /\ channel # <<>> /\ Head(channel).kind = "Matrix" /\ channel' = Tail(channel)

FromSnapshot == pc = "sync" /\ syncq # <<>> /\ syncq' = Tail(syncq)

\* this step hands handle_matrix an event that carries an id of the set ids
DeliversOneOf(ids) ==
    \/ FromChannel /\ Head(channel).evt.id # None /\ Unwrap(Head(channel).evt.id) \in ids
    \/ FromSnapshot /\ Head(syncq).id # None /\ Unwrap(Head(syncq).id) \in ids

(* C4: a delivery of an event whose EventID was delivered before, in the    *)
(* snapshot or in a poll batch, writes nothing to the client and changes no *)
(* room and no bridge state: the side effects happen at most once.          *)
C4_AtMostOnce ==
    [][DeliversOneOf(Range(delivered)) => UNCHANGED <<rooms, io, seen_events, replayed, panicked>>]_vars

\* the message of the room was delivered twice after the room was Resolved,
\* and reached the client once
C4_Witness ==
    /\ Count(delivered, 2) >= 2
    /\ "!r1" \in DOMAIN rooms
    /\ rooms["!r1"].canonical_alias # None
    /\ Count(ClientOut, Translate(rooms["!r1"], Alice, "Privmsg", Some("hi"))) = 1

\* the EventIDs the remote service returned for the bridge's own sends
EchoIds == {Unwrap(echoes[i].id) : i \in 1..Len(echoes)}

(* C5: the EventID returned by the remote send is in the seen-set as soon   *)
(* as the Privmsg command is handled, and every later delivery of the echo  *)
(* carrying it writes nothing to the client and changes no room.            *)
C5_EchoDropped ==
    [][/\ EchoIds' \subseteq Range(seen_events')
       /\ DeliversOneOf(EchoIds) => UNCHANGED <<rooms, io, seen_events>>]_vars

\* the reactor has consumed the notification of an echo from a poll batch
C5_Witness ==
    \E i \in 1..Len(handled) :
        /\ handled[i].kind = "Matrix"
        /\ handled[i].evt.id # None
        /\ Unwrap(handled[i].evt.id) \in EchoIds

\* the notifications of the sequence that worker w sent
FromWorker(seq, w) == SelectSeq(seq, LAMBDA n : n.src = w)

\* what worker w has sent on the channel when it is where workers[w] says
SentBy(w) ==
    LET wk == workers[w]
        events == [i \in 1..Len(wk.batch) |-> Matrix(wk.batch[i], w)]
    IN  CASE wk.st = "sending" -> SubSeq(events, 1, wk.next - 1)
          [] wk.st = "done" -> Append(events, EndPoll(w))
          [] OTHER -> <<>>

EndPollsHandled == Cardinality({i \in 1..Len(handled) : handled[i].kind = "EndPoll"})

Welcome == IrcMessage(None, "Welcome", <<>>, None)

(* C6: what the reactor has consumed from a poll cycle, followed by what is *)
(* still queued, is the batch in the order the remote service returned it,  *)
(* followed by one EndPoll once the worker is done; and a poll cycle has    *)
(* been started for every EndPoll the reactor consumed (and one per login). *)
C6_PollCycle ==
    /\ \A w \in DOMAIN workers : FromWorker(handled, w) \o FromWorker(channel, w) = SentBy(w)
    /\ Len(workers) = Count(io, ToMatrix("poll", TRUE))
    /\ Len(workers) = Count(ClientOut, Welcome) + EndPollsHandled

\* a batch of two events and its EndPoll were consumed, and the next cycle started
C6_Witness ==
    \E w \in DOMAIN workers :
        /\ workers[w].st = "done"
        /\ Len(workers[w].batch) = 2
        /\ FromWorker(handled, w) = SentBy(w)
        /\ Len(workers) = w + 1

(* C7: when a poll request fails, no remote-event notification is enqueued  *)
(* for that cycle and the failure reaches the reactor: something of that    *)
(* cycle is consumed by the reactor or queued for it.                       *)
C7_FailureObserved ==
    \A w \in DOMAIN workers :
        workers[w].st = "failed" =>
            /\ \A n \in Range(FromWorker(handled \o channel, w)) : n.kind # "Matrix"
            /\ FromWorker(handled \o channel, w) # <<>>

\* the commands the reactor has read, in order
CommandsRead ==
    LET reads == SelectSeq(io, LAMBDA x : x.to = "reactor")
    IN  [i \in 1..Len(reads) |-> reads[i].msg.command]

\* the login, snapshot and poll calls and the welcomes, in order
LoginTrace ==
    SelectSeq(io, LAMBDA x : \/ x.to = "matrix" /\ x.call \in {"login", "sync", "poll"}
                             \/ x.to = "client" /\ x.msg = Welcome)

(* C8: once Pass, Nick and User were read in this order and the remote      *)
(* calls succeeded, the reactor has done one login, then one snapshot       *)
(* fetch, then started one poll cycle, then sent one welcome; any further   *)
(* poll cycle answers an EndPoll.                                           *)
C8_LoginSequence ==
    (CommandsRead = <<"Pass", "Nick", "User">> /\ ~panicked /\ pc # "sync") =>
        LoginTrace = <<ToMatrix("login", TRUE), ToMatrix("sync", TRUE),
                       ToMatrix("poll", TRUE), ToClient(Welcome)>>
                     \o [i \in 1..EndPollsHandled |-> ToMatrix("poll", TRUE)]

\* Pass, Nick, User were handled with a snapshot of two events, and the
\* client is welcomed
C8_Witness ==
    /\ CommandsRead = <<"Pass", "Nick", "User">>
    /\ ~panicked
    /\ pc # "sync"
    /\ Len(delivered) = 2
    /\ Count(ClientOut, Welcome) = 1

\* this step reads a Privmsg whose target is the canonical name of no room
DropsUnroutable ==
    /\ pc = "client"
    /\ inbox # <<>>
    /\ Head(inbox).command = "Privmsg"
    /\ \A id \in DOMAIN rooms : rooms[id].canonical_alias # Some(Head(inbox).args[1])
    /\ inbox' = Tail(inbox)

(* C9: reading a Privmsg whose target is the canonical name of no Resolved  *)
(* Room issues no remote send, writes nothing to the client, does not       *)
(* panic and leaves the rooms and the seen-set unchanged.                   *)
C9_UnroutableDropped ==
    [][DropsUnroutable =>
          /\ io' = Append(io, FromClient(Head(inbox)))
          /\ ~panicked'
          /\ UNCHANGED <<rooms, seen_events, echoes>>]_vars

\* a Privmsg to "#nowhere" was dropped while the room "#general" was Resolved
C9_Witness ==
    /\ io # <<>>
    /\ io[Len(io)] = FromClient(Cmd("Privmsg", <<"#nowhere">>, Some("yo")))
    /\ ~panicked
    /\ pc = "idle"
    /\ RoomFromIrc(rooms, "#general") # {}

(* C10: a failed login or a failed snapshot fetch is the last thing the     *)
(* reactor does: it has panicked, so no snapshot follows a failed login and *)
(* no poll cycle and no welcome follow either failure.                      *)
C10_FailedLoginAborts ==
    \A i \in 1..Len(io) :
        io[i] \in {ToMatrix("login", FALSE), ToMatrix("sync", FALSE)} =>
            /\ i = Len(io)
            /\ panicked
            /\ Len(workers) = Count(SubSeq(io, 1, i), ToMatrix("poll", TRUE))

\* the snapshot fetch failed after a successful login
C10_Witness ==
    /\ panicked
    /\ io # <<>>
    /\ io[Len(io)] = ToMatrix("sync", FALSE)
    /\ workers = <<>>

-----------------------------------------------------------------------------
(* Further claims about the Room state machine, checked under SpecRoom. *)

Unresolved(room) == room.canonical_alias = None

\* the membership events among RoomEvents whose action is neither Join nor Leave
OtherMemberships ==
    {e \in RoomEvents : e.tag = "Membership" /\ e.action \notin {"Join", "Leave"}}

(* C11, as stated: a membership event whose action is neither Join nor      *)
(* Leave is a no-op in both Room states: no message, and the Room, its      *)
(* pending included, is unchanged.                                          *)
C11_OtherMembershipNoop ==
    \A id \in DOMAIN rooms : \A e \in OtherMemberships :
        HandleEvent(rooms[id], e) = Outcome(rooms[id], <<>>, FALSE)

(* C11, amended: such an event never emits a message and never changes      *)
(* members, canonical name or join rules; a Resolved Room is unchanged by   *)
(* it, and an Unresolved Room appends it to pending.                        *)
C11_OtherMembershipSilent ==
    \A id \in DOMAIN rooms : \A e \in OtherMemberships :
        LET room == rooms[id]
            out == HandleEvent(room, e)
        IN  /\ out.msgs = <<>>
            /\ ~out.panic
            /\ out.room.members = room.members
            /\ out.room.canonical_alias = room.canonical_alias
            /\ out.room.join_rules = room.join_rules
            /\ ~Unresolved(room) => out.room = room
            /\ Unresolved(room) => out.room.pending_events = Append(room.pending_events, e)

\* an Unresolved Room buffered an invitation behind a Join, and nothing was emitted
C11_Witness ==
    \E id \in DOMAIN rooms :
        /\ Unresolved(rooms[id])
        /\ rooms[id].pending_events = <<Membership(Alice, "Join"), Membership(Bob, "Invite")>>
        /\ rooms[id].members = <<>>
        /\ ClientOut = <<>>

\* the events of RoomEvents that handle_event treats as bookkeeping
BookkeepingEvents ==
    {e \in RoomEvents : e.tag \in {"JoinRules", "Create", "PowerLevels", "HistoryVisibility",
                                    "Name", "Avatar", "Unknown"}}

(* C12: in both Room states a JoinRules, Create, PowerLevels,               *)
(* HistoryVisibility, Name, Avatar or Unknown event emits nothing and       *)
(* leaves pending, members and the canonical name unchanged; JoinRules      *)
(* stores the rules and the others change nothing at all.                   *)
C12_BookkeepingSilent ==
    \A id \in DOMAIN rooms : \A e \in BookkeepingEvents :
        LET room == rooms[id]
            out == HandleEvent(room, e)
        IN  /\ out.msgs = <<>>
            /\ ~out.panic
            /\ out.room.pending_events = room.pending_events
            /\ out.room.members = room.members
            /\ out.room.canonical_alias = room.canonical_alias
            /\ out.room.join_rules =
                  IF e.tag = "JoinRules" THEN <<e.rules>> ELSE room.join_rules

\* the join rules were stored by an Unresolved Room that holds two buffered events
C12_Witness ==
    \E id \in DOMAIN rooms :
        /\ Unresolved(rooms[id])
        /\ rooms[id].join_rules = <<"public">>
        /\ Len(rooms[id].pending_events) = 2
        /\ ClientOut = <<>>

\* the outbound message the specification asks for
Expected(sender, kind, target, body) ==
    [prefix |-> <<sender>>, command |-> kind, args |-> <<target>>, suffix |-> body]

(* C13: a Resolved Room translates a Join, Leave, Message or Topic event    *)
(* into exactly one message of kind Join, Part, Privmsg or Topic, addressed *)
(* to its current canonical name, sent by "<nick>!<nick>@<homeserver>",     *)
(* with no body for Join and Part and the text or topic as body otherwise.  *)
C13_Translation ==
    \A id \in DOMAIN rooms :
        ~Unresolved(rooms[id]) =>
            LET room == rooms[id]
                name == room.canonical_alias[1]
            IN  /\ HandleEvent(room, Membership(Alice, "Join")).msgs =
                      <<Expected("alice!alice@hs.org", "Join", name, <<>>)>>
                /\ HandleEvent(room, Membership(Bob, "Join")).msgs =
                      <<Expected("bob!bob@example.com", "Join", name, <<>>)>>
                /\ HandleEvent(room, Membership(Alice, "Leave")).msgs =
                      <<Expected("alice!alice@hs.org", "Part", name, <<>>)>>
                /\ HandleEvent(room, Message(Alice, "hi")).msgs =
                      <<Expected("alice!alice@hs.org", "Privmsg", name, <<"hi">>)>>
                /\ HandleEvent(room, Topic(Bob, "news")).msgs =
                      <<Expected("bob!bob@example.com", "Topic", name, <<"news">>)>>

\* a Room named "#other" has sent bob's topic to the client
C13_Witness ==
    \E id \in DOMAIN rooms :
        /\ rooms[id].canonical_alias = <<"#other">>
        /\ ClientOut # <<>>
        /\ ClientOut[Len(ClientOut)] =
              Expected("bob!bob@example.com", "Topic", "#other", <<"news">>)

\* the Aliases events among RoomEvents
AliasesEvents == {e \in RoomEvents : e.tag = "Aliases"}

(* C14: an Aliases event with a first alias makes an Unresolved Room adopt  *)
(* that alias and drain pending (every buffered event translated, pending   *)
(* empty); a Resolved Room ignores any Aliases event (Room unchanged,       *)
(* nothing emitted), so handling it again changes nothing.                  *)
C14_AliasesOnlyWhenUnresolved ==
    \A id \in DOMAIN rooms : \A e \in AliasesEvents :
        LET room == rooms[id]
            out == HandleEvent(room, e)
        IN  /\ ~Unresolved(room) => out = Outcome(room, <<>>, FALSE)
            /\ (Unresolved(room) /\ e.aliases # <<>>) =>
                  /\ ~out.panic
                  /\ out.room.canonical_alias = <<Head(e.aliases)>>
                  /\ out.room.pending_events = <<>>
                  /\ SameBag(out.msgs, InArrivalOrder(out.room, room.pending_events))
                  /\ HandleEvent(out.room, e) = Outcome(out.room, <<>>, FALSE)

\* a Room adopted "#first" from an Aliases event and drained two buffered events
C14_Witness ==
    \E id \in DOMAIN rooms :
        /\ rooms[id].canonical_alias = <<"#first">>
        /\ rooms[id].pending_events = <<>>
        /\ replayed = 2
        /\ Len(ClientOut) = 2
        /\ \A i \in 1..2 : ClientOut[i].args = <<"#first">>

\* the members of the Room id before this step
MembersBefore(id) == IF id \in DOMAIN rooms THEN rooms[id].members ELSE <<>>

\* the Join and Part messages written to the client by this step
MemberMessages == SelectSeq(Emitted, LAMBDA m : m.command \in {"Join", "Part"})

(* C16: every step keeps the members a Room had, in order, and appends one  *)
(* entry per Join or Part message the step emits (at once when Resolved, at *)
(* drain time for buffered events): the user the message is sent for. No    *)
(* step removes a member, and a step that emits no Join or Part adds none.  *)
C16_MembersAppendOnly ==
    [][\A id \in DOMAIN rooms' :
          LET before == MembersBefore(id)
              after == rooms'[id].members
              added == SubSeq(after, Len(before) + 1, Len(after))
          IN  /\ Len(before) <= Len(after)
              /\ SubSeq(after, 1, Len(before)) = before
              /\ Len(added) = Len(MemberMessages)
              /\ \A i \in 1..Len(added) :
                    MemberMessages[i].prefix =
                        <<added[i].nickname \o "!" \o added[i].nickname \o "@"
                              \o added[i].homeserver>>]_vars

\* alice joined and left a Resolved Room: she is recorded twice
C16_Witness ==
    \E id \in DOMAIN rooms :
        /\ rooms[id].members = <<Alice, Alice>>
        /\ Len(ClientOut) = 2
        /\ ClientOut[1].command = "Join"
        /\ ClientOut[2].command = "Part"

(* C18: pending only ever holds membership, message and topic events, so    *)
(* draining it, under any canonical name, never reaches the unreachable!()  *)
(* of handle_with_alias.                                                    *)
C18_PendingTranslatable ==
    \A id \in DOMAIN rooms :
        /\ \A i \in 1..Len(rooms[id].pending_events) :
              rooms[id].pending_events[i].tag \in {"Membership", "Message", "Topic"}
        /\ \A name \in {"#general", "#first"} :
              ~RunPending([rooms[id] EXCEPT !.canonical_alias = <<name>>]).panic

\* a Room drained two buffered events when "#general" was set and was then
\* renamed "#other", without a panic
C18_Witness ==
    \E id \in DOMAIN rooms :
        /\ rooms[id].canonical_alias = <<"#other">>
        /\ replayed = 2
        /\ Len(ClientOut) = 2
        /\ \A i \in 1..2 : ClientOut[i].args = <<"#general">>
        /\ ~panicked

(* C20: an Aliases event with an empty list, handled by an Unresolved Room, *)
(* does not abort the reactor: the Room is unchanged (still Unresolved,     *)
(* same pending) and nothing is emitted.                                    *)
C20_EmptyAliasesTolerated ==
    /\ ~panicked
    /\ \A id \in DOMAIN rooms :
          Unresolved(rooms[id]) =>
              HandleEvent(rooms[id], Aliases(<<>>)) = Outcome(rooms[id], <<>>, FALSE)

-----------------------------------------------------------------------------
(* Further claims about the session. *)

\* this step reads a Quit command
ReadsQuit ==
    /\ pc = "client"
    /\ inbox # <<>>
    /\ Head(inbox).command = "Quit"
    /\ inbox' = Tail(inbox)

\* the reactor has read a Quit command
QuitRead == \E i \in 1..Len(io) : io[i].to = "reactor" /\ io[i].msg.command = "Quit"

\* this step consumes an EndPoll notification
ConsumesEndPoll ==
    /\ channel # <<>>
    /\ Head(channel).kind = "EndPoll"
    /\ channel' = Tail(channel)

(* C15, checked under SpecQuit: reading Quit only leaves the read loop (no  *)
(* worker, queued notification, room or login state is touched, and the     *)
(* reactor goes on); after it a worker with a batch can still enqueue, the  *)
(* idle reactor can still take the notification at the head of the channel, *)
(* and every EndPoll it consumes starts a new poll cycle.                   *)
C15_QuitKeepsPolling ==
    /\ [][ReadsQuit => /\ pc' = "idle"
                       /\ ~panicked'
                       /\ UNCHANGED <<workers, channel, rooms, seen_events, uid>>]_vars
    /\ []((QuitRead /\ ~panicked) =>
             /\ \A w \in DOMAIN workers : workers[w].st = "sending" => ENABLED WorkerSend(w)
             /\ (pc = "idle" /\ channel # <<>>) => ENABLED (NotifyEndPoll \/ NotifyMatrix))
    /\ [][(QuitRead /\ ConsumesEndPoll) =>
             /\ workers' = Append(workers, Worker("request", <<>>, 1))
             /\ io' = Append(io, ToMatrix("poll", TRUE))]_vars

\* after Quit was read, the reactor wrote a translated remote event to the
\* client and then started a new poll cycle
C15_Witness ==
    \E i, k, j \in 1..Len(io) :
        /\ i < k
        /\ k < j
        /\ io[i] = FromClient(Cmd("Quit", <<>>, None))
        /\ io[k].to = "client"
        /\ io[k].msg.command = "Privmsg"
        /\ io[j] = ToMatrix("poll", TRUE)

\* the poll cycles in progress: a worker in its request or sending its batch,
\* or an EndPoll the reactor has not consumed
Outstanding ==
    Cardinality({w \in DOMAIN workers : workers[w].st \in {"request", "sending"}})
        + Cardinality({i \in 1..Len(channel) : channel[i].kind = "EndPoll"})

(* C17, checked under SpecRelogin: at every moment at most one poll cycle   *)
(* is outstanding, whatever the client's commands, repeated logins          *)
(* included.                                                                *)
C17_OnePollCycle == Outstanding <= 1

(* C19, checked under Spec: when an unroutable Privmsg is dropped and       *)
(* commands were received behind it, the reactor stays in the read loop of  *)
(* handle_client, so they are read in the same pass.                        *)
C19_DropKeepsReading ==
    [][(DropsUnroutable /\ inbox' # <<>>) => pc' = "client"]_vars

====
